---------------------------- MODULE Spec2Model ----------------------------
(***************************************************************************)
(* Model of pelicanconf.py, the settings module of the dev-log site.       *)
(*                                                                         *)
(* The file is a Python module made of assignment statements over literal  *)
(* expressions and of comments.  Loading the settings executes the file    *)
(* top to bottom in a fresh namespace: an assignment evaluates its literal *)
(* and binds the target name, a comment does nothing.  The namespace left  *)
(* at the end of the file is the settings document.  Consumers then read   *)
(* the document by key.                                                    *)
(***************************************************************************)
EXTENDS Integers, Sequences, FiniteSets, TLC

\* Number of times the settings file is loaded (each in a fresh namespace).
MaxLoads == 2

\* Number of consumers reading the loaded documents.
MaxReaders == 2

VARIABLES
    docs,   \* docs[i]: the namespace of the i-th load (the last may be executing)
    pc,     \* index in Source of the next logical line of the executing load
    seen    \* seen[r]: the last (key, value) reader r looked up

vars == <<docs, pc, seen>>

----------------------------------------------------------------------------
(* Python literal expressions, as written in the file.                     *)

StrLit(quote, text) == [lit |-> "str", quote |-> quote, text |-> text]
NoneLit == [lit |-> "None"]
IntLit(digits) == [lit |-> "int", digits |-> digits]
BoolLit(word) == [lit |-> "bool", word |-> word]
TupleLit(elts) == [lit |-> "tuple", elts |-> elts]
ListLit(elts) == [lit |-> "list", elts |-> elts]

(* Python values.                                                          *)

StrVal(s) == [type |-> "str", s |-> s]
NoneVal == [type |-> "NoneType"]
IntVal(n) == [type |-> "int", n |-> n]
BoolVal(b) == [type |-> "bool", b |-> b]
TupleVal(items) == [type |-> "tuple", items |-> items]
ListVal(items) == [type |-> "list", items |-> items]

(* Logical lines of the file.                                              *)

Assign(line, target, expr) ==
    [kind |-> "assign", line |-> line, target |-> target, expr |-> expr]
Comment(line) == [kind |-> "comment", line |-> line]
CommentedOut(line, target, expr) ==
    [kind |-> "comment", line |-> line, target |-> target, expr |-> expr]

LINKS_literal ==
    TupleLit(<<
        TupleLit(<<StrLit("\"", "Pelican"), StrLit("\"", "https://getpelican.com/")>>),
        TupleLit(<<StrLit("\"", "Python.org"), StrLit("\"", "https://www.python.org/")>>),
        TupleLit(<<StrLit("\"", "Jinja2"), StrLit("\"", "https://palletsprojects.com/p/jinja/")>>),
        TupleLit(<<StrLit("\"", "You can modify those links in your config file"),
                   StrLit("\"", "#")>>) >>)

SOCIAL_literal ==
    TupleLit(<<
        TupleLit(<<StrLit("\"", "You can add links in your config file"), StrLit("\"", "#")>>),
        TupleLit(<<StrLit("\"", "Another social link"), StrLit("\"", "#")>>) >>)

\* Lines 1 to 12: the site's metadata and theme.
SiteLines ==
    << Assign(1, "AUTHOR", StrLit("'", "Thomas Edwards")),
       Assign(2, "SITENAME", StrLit("'", "Epic Quest Dev Diaries")),
       Assign(4, "SITEURL", StrLit("'", "")),
       Assign(6, "PATH", StrLit("\"", "content")),
       Assign(8, "TIMEZONE", StrLit("'", "Europe/Rome")),
       Assign(10, "DEFAULT_LANG", StrLit("'", "English")),
       Assign(12, "THEME", StrLit("'", "themes/notmyidea")) >>

\* Lines 14 to 19: the feed settings.
FeedLines ==
    << Comment(14),
       Assign(15, "FEED_ALL_ATOM", NoneLit),
       Assign(16, "CATEGORY_FEED_ATOM", NoneLit),
       Assign(17, "TRANSLATION_FEED_ATOM", NoneLit),
       Assign(18, "AUTHOR_FEED_ATOM", NoneLit),
       Assign(19, "AUTHOR_FEED_RSS", NoneLit) >>

\* Lines 21 to 23: commented-out settings.
RelativeUrlLines ==
    << Comment(21),
       CommentedOut(22, "RELATIVE_URLS", BoolLit("True")),
       CommentedOut(23, "STATIC_PATHS", ListLit(<<StrLit("'", "images")>>)) >>

\* Lines 25 to 37: the blogroll and the social widget.
LinkLines ==
    << Comment(25),
       Assign(26, "LINKS", LINKS_literal),
       Comment(33),
       Assign(34, "SOCIAL", SOCIAL_literal) >>

\* Lines 39 to 42: the pagination size and a last commented-out setting.
TailLines ==
    << Assign(39, "DEFAULT_PAGINATION", IntLit(<<6>>)),
       Comment(41),
       CommentedOut(42, "RELATIVE_URLS", BoolLit("True")) >>

\* The file without its line 19, the last feed toggle.
SourceFourFeeds ==
    SiteLines \o SubSeq(FeedLines, 1, Len(FeedLines) - 1)
        \o RelativeUrlLines \o LinkLines \o TailLines

\* The file, one entry per logical line (blank lines left out).
Source == SiteLines \o FeedLines \o RelativeUrlLines \o LinkLines \o TailLines

----------------------------------------------------------------------------
(* Evaluation of a literal expression.                                     *)

RECURSIVE DecimalValue(_)
DecimalValue(digits) ==
    IF digits = <<>> THEN 0
    ELSE 10 * DecimalValue(SubSeq(digits, 1, Len(digits) - 1)) + digits[Len(digits)]

RECURSIVE Eval(_)

\* An integer literal kept as its text.
EvalIntAsStr(e) ==
    CASE e.lit = "str" -> StrVal(e.text)
      [] e.lit = "None" -> NoneVal
      [] e.lit = "int" -> StrVal("6")
      [] e.lit = "bool" -> BoolVal(e.word = "True")
      [] e.lit = "tuple" -> TupleVal([j \in 1..Len(e.elts) |-> Eval(e.elts[j])])
      [] e.lit = "list" -> ListVal([j \in 1..Len(e.elts) |-> Eval(e.elts[j])])

\* The elements of a tuple display taken last to first.
EvalTupleReversed(e) ==
    CASE e.lit = "str" -> StrVal(e.text)
      [] e.lit = "None" -> NoneVal
      [] e.lit = "int" -> IntVal(DecimalValue(e.digits))
      [] e.lit = "bool" -> BoolVal(e.word = "True")
      [] e.lit = "tuple" ->
            TupleVal([j \in 1..Len(e.elts) |-> Eval(e.elts[Len(e.elts) + 1 - j])])
      [] e.lit = "list" -> ListVal([j \in 1..Len(e.elts) |-> Eval(e.elts[j])])

Eval(e) ==
    CASE e.lit = "str" -> StrVal(e.text)
      [] e.lit = "None" -> NoneVal
      [] e.lit = "int" -> IntVal(DecimalValue(e.digits))
      [] e.lit = "bool" -> BoolVal(e.word = "True")
      [] e.lit = "tuple" -> TupleVal([j \in 1..Len(e.elts) |-> Eval(e.elts[j])])
      [] e.lit = "list" -> ListVal([j \in 1..Len(e.elts) |-> Eval(e.elts[j])])

----------------------------------------------------------------------------
(* Namespaces and execution of one logical line.                           *)

\* The namespace a load starts from: no settings name is bound.
NewNamespace == [k \in {} |-> NoneVal]

\* Binding a name forgets every other binding.
BindClobber(namespace, name, value) == [k \in {name} |-> value]

\* namespace with name bound to value (a later binding replaces an earlier).
Bind(namespace, name, value) ==
    [k \in DOMAIN namespace \cup {name} |->
        IF k = name THEN value ELSE namespace[k]]

\* The comment marker ignored: commented-out assignments run too.
ExecIgnoringCommentMarker(stmt, namespace) ==
    IF "target" \in DOMAIN stmt
    THEN Bind(namespace, stmt.target, Eval(stmt.expr))
    ELSE namespace

\* Only the assignments of the first ten lines run.
ExecHead(stmt, namespace) ==
    IF stmt.kind = "assign" /\ stmt.line <= 10
    THEN Bind(namespace, stmt.target, Eval(stmt.expr))
    ELSE namespace

Exec(stmt, namespace) ==
    IF stmt.kind = "assign"
    THEN Bind(namespace, stmt.target, Eval(stmt.expr))
    ELSE namespace

\* A document is handed to its consumers while the file is still executing.
LoadedEarly(i) == i \in DOMAIN docs

\* The i-th load has reached the end of the file: docs[i] is the document.
Loaded(i) == i \in DOMAIN docs /\ (i < Len(docs) \/ pc > Len(Source))

----------------------------------------------------------------------------
(* Consumers.                                                              *)

Absent == [found |-> FALSE]

Lookup(doc, key) == IF key \in DOMAIN doc THEN doc[key] ELSE Absent

Readers == 1..MaxReaders

\* Every name the file mentions as an assignment target, commented out or not.
MentionedKeys ==
    {Source[n].target : n \in {m \in DOMAIN Source : "target" \in DOMAIN Source[m]}}

\* The keys the readers of the model look up: one setting of each kind of
\* value, the first and last feed toggles, and both commented-out names.
ReadKeys ==
    {"SITEURL", "FEED_ALL_ATOM", "AUTHOR_FEED_RSS", "LINKS", "SOCIAL",
     "DEFAULT_PAGINATION", "RELATIVE_URLS", "STATIC_PATHS"}

NoRead == [key |-> "", val |-> Absent]

----------------------------------------------------------------------------
(* The state machine.                                                      *)

Init ==
    /\ docs = <<NewNamespace>>
    /\ pc = 1
    /\ seen = [r \in Readers |-> NoRead]

\* The interpreter executes the next logical line of the file.
Step ==
    /\ pc <= Len(Source)
    /\ docs' = [docs EXCEPT ![Len(docs)] = Exec(Source[pc], @)]
    /\ pc' = pc + 1
    /\ UNCHANGED seen

\* The file is loaded again, in a fresh namespace.
StartLoad ==
    /\ Loaded(Len(docs))
    /\ Len(docs) < MaxLoads
    /\ docs' = Append(docs, NewNamespace)
    /\ pc' = 1
    /\ UNCHANGED seen

\* Reader r looks key up in the i-th document.
Read(r, i, key) ==
    /\ Loaded(i)
    /\ seen' = [seen EXCEPT ![r] = [key |-> key, val |-> Lookup(docs[i], key)]]
    /\ UNCHANGED <<docs, pc>>

Next ==
    \/ Step
    \/ StartLoad
    \/ \E r \in Readers, i \in DOMAIN docs, key \in ReadKeys : Read(r, i, key)

Spec == Init /\ [][Next]_vars

----------------------------------------------------------------------------
(* Names used by the properties.                                           *)

\* The settings names of the file and the field names the specification
\* gives them.
FieldOf ==
    [k \in MentionedKeys |->
        CASE k = "AUTHOR" -> "author"
          [] k = "SITENAME" -> "site_name"
          [] k = "SITEURL" -> "site_url"
          [] k = "PATH" -> "content_path"
          [] k = "TIMEZONE" -> "timezone"
          [] k = "DEFAULT_LANG" -> "default_language"
          [] k = "THEME" -> "theme"
          [] k = "FEED_ALL_ATOM" -> "feed_all"
          [] k = "CATEGORY_FEED_ATOM" -> "category_feed"
          [] k = "TRANSLATION_FEED_ATOM" -> "translation_feed"
          [] k = "AUTHOR_FEED_ATOM" -> "author_feed_atom"
          [] k = "AUTHOR_FEED_RSS" -> "author_feed_rss"
          [] k = "LINKS" -> "links"
          [] k = "SOCIAL" -> "social_links"
          [] k = "DEFAULT_PAGINATION" -> "pagination_size"
          [] k = "RELATIVE_URLS" -> "relative_urls"
          [] k = "STATIC_PATHS" -> "static_paths"]

ActiveFields ==
    {"author", "site_name", "site_url", "content_path", "timezone",
     "default_language", "theme", "feed_all", "category_feed",
     "translation_feed", "author_feed_atom", "author_feed_rss", "links",
     "social_links", "pagination_size"}

\* The settings assigned under the comment "Feed generation is usually not
\* desired when developing" (lines 15 to 19).
FeedKeys ==
    {Source[n].target :
        n \in {m \in DOMAIN Source :
                 Source[m].kind = "assign" /\ Source[m].line \in 15..19}}

\* The value the file assigns to key: the literal of the last assignment to
\* it, evaluated; Absent when no assignment binds it.
Assigned(key) ==
    LET at == {n \in DOMAIN Source :
                 Source[n].kind = "assign" /\ Source[n].target = key}
    IN IF at = {} THEN Absent
       ELSE Eval(Source[CHOOSE n \in at : \A m \in at : m <= n].expr)

IsStrPair(v) ==
    /\ v.type = "tuple"
    /\ Len(v.items) = 2
    /\ \A j \in 1..2 : v.items[j].type = "str"

\* v holds, in order and with unchanged text, the pairs written in literal.
SameOrderAndText(v, literal) ==
    /\ v.type = "tuple"
    /\ Len(v.items) = Len(literal.elts)
    /\ \A j \in 1..Len(v.items) :
          /\ IsStrPair(v.items[j])
          /\ v.items[j].items[1].s = literal.elts[j].elts[1].text
          /\ v.items[j].items[2].s = literal.elts[j].elts[2].text

LoadedDocs == {i \in DOMAIN docs : Loaded(i)}

----------------------------------------------------------------------------
(* Properties.                                                             *)

\* C1: the keys of a loaded document are exactly the fifteen active fields
\* of section 6 (under the correspondence FieldOf): none missing, none extra.
C1_ExactFields ==
    \A i \in LoadedDocs :
        /\ DOMAIN docs[i] \subseteq DOMAIN FieldOf
        /\ {FieldOf[k] : k \in DOMAIN docs[i]} = ActiveFields
        /\ Cardinality(DOMAIN docs[i]) = Cardinality(ActiveFields)

C1_Witness == Len(docs) >= 2 /\ Loaded(2) /\ DOMAIN docs[2] # {}

\* The part of C2 that the file decides: every feed toggle the file sets to
\* None is None in every loaded document and in every state after the load,
\* never the empty string nor any other string, and a reader of a feed
\* toggle sees None.  It says nothing of a serialized form.
FeedTogglesAreNone ==
    /\ \A i \in LoadedDocs : \A k \in FeedKeys :
          /\ k \in DOMAIN docs[i]
          /\ docs[i][k] = NoneVal
          /\ docs[i][k] # StrVal("")
          /\ docs[i][k].type # "str"
    /\ \A r \in Readers : seen[r].key \in FeedKeys => seen[r].val = NoneVal

\* C3: LINKS and SOCIAL hold their entries in the order of the file with
\* label and URL text unchanged, every entry a pair of two strings; LINKS has
\* 4 entries (Pelican, Python.org, Jinja2, the placeholder), SOCIAL has 2.
C3_LinksInFileOrder ==
    \A i \in LoadedDocs :
        /\ SameOrderAndText(docs[i]["LINKS"], LINKS_literal)
        /\ SameOrderAndText(docs[i]["SOCIAL"], SOCIAL_literal)
        /\ Len(docs[i]["LINKS"].items) = 4
        /\ Len(docs[i]["SOCIAL"].items) = 2
        /\ [j \in 1..4 |-> docs[i]["LINKS"].items[j].items[1].s]
             = << "Pelican", "Python.org", "Jinja2",
                  "You can modify those links in your config file" >>

C3_Witness ==
    /\ \E r \in Readers : seen[r].key = "LINKS" /\ seen[r].val # Absent
    /\ \E r \in Readers : seen[r].key = "SOCIAL" /\ seen[r].val # Absent

\* C4: in every state of a loaded document DEFAULT_PAGINATION is an
\* integer, equal to 6 and greater than 0.
C4_PaginationIsSix ==
    \A i \in LoadedDocs :
        /\ "DEFAULT_PAGINATION" \in DOMAIN docs[i]
        /\ docs[i]["DEFAULT_PAGINATION"].type = "int"
        /\ docs[i]["DEFAULT_PAGINATION"].n = 6
        /\ docs[i]["DEFAULT_PAGINATION"].n > 0

C4_Witness ==
    \E r \in Readers :
        seen[r].key = "DEFAULT_PAGINATION" /\ seen[r].val = IntVal(6)

\* C7: once a document is loaded it stays loaded and no step (a read, a
\* line of a later load, the start of a later load) changes its keys or the
\* value of any of its fields.
C7_LoadedIsFrozen ==
    [][\A i \in DOMAIN docs :
          Loaded(i) => /\ i \in DOMAIN docs'
                       /\ Loaded(i)'
                       /\ docs'[i] = docs[i]]_vars

C7_Witness ==
    /\ Len(docs) >= 2 /\ pc > 1
    /\ \A r \in Readers : seen[r] # NoRead

\* C8: whatever the interleaving of the readers' lookups, a lookup returns
\* the value the file assigned to the key at construction (Absent for a key
\* the file does not assign), so two readers of the same key hold the same
\* value.
C8_ReadersAgree ==
    /\ \A r \in Readers : seen[r] # NoRead => seen[r].val = Assigned(seen[r].key)
    /\ \A i \in LoadedDocs : \A k \in MentionedKeys :
          Lookup(docs[i], k) = Assigned(k)
    /\ \A r1, r2 \in Readers :
          seen[r1].key = seen[r2].key => seen[r1].val = seen[r2].val

C8_Witness ==
    /\ Len(docs) >= 2 /\ Loaded(2)
    /\ \E r1, r2 \in Readers :
          r1 # r2 /\ seen[r1].key = "LINKS" /\ seen[r2].key = "LINKS"

\* C9 as stated: a loaded document has four feed toggle fields.
C9_FourFeedToggles ==
    \A i \in LoadedDocs : Cardinality(FeedKeys \cap DOMAIN docs[i]) = 4

\* C9 amended: a loaded document has five feed toggle fields, each nullable
\* (None or a string), and each is None, the value that disables the feed.
C9_FiveFeedToggles ==
    \A i \in LoadedDocs :
        /\ Cardinality(FeedKeys \cap DOMAIN docs[i]) = 5
        /\ \A k \in FeedKeys \cap DOMAIN docs[i] :
              /\ docs[i][k].type \in {"NoneType", "str"}
              /\ docs[i][k] = NoneVal

C9_Witness ==
    /\ Loaded(1)
    /\ \E r \in Readers : seen[r].key = "FEED_ALL_ATOM" /\ seen[r].val = NoneVal

\* C10: RELATIVE_URLS and STATIC_PATHS are bound in no state of any load
\* (all three lines that mention them are comments), so a lookup of either
\* finds it absent.
C10_CommentedOutAbsent ==
    /\ \A i \in DOMAIN docs : \A k \in {"RELATIVE_URLS", "STATIC_PATHS"} :
          Lookup(docs[i], k) = Absent
    /\ \A r \in Readers :
          seen[r].key \in {"RELATIVE_URLS", "STATIC_PATHS"} => seen[r].val = Absent

C10_Witness ==
    /\ Loaded(1)
    /\ \E r \in Readers : seen[r].key = "RELATIVE_URLS" /\ seen[r].val = Absent
    /\ \E r \in Readers : seen[r].key = "STATIC_PATHS" /\ seen[r].val = Absent

=============================================================================
